---------------------------- MODULE Spec2Model ----------------------------
(***************************************************************************)
(* UGVHandler (server/handlers/ugv/prod.py): the ground-station handler of *)
(* an unmanned ground vehicle.  The handler caches telemetry read from a   *)
(* dronekit Vehicle (the link), fetches the drop target from the interop   *)
(* provider, reads and writes vehicle parameters and arms/disarms the      *)
(* vehicle.                                                                *)
(*                                                                         *)
(* Python values: None is the empty sequence and any other value v of an   *)
(* optional field is <<v>>; a dict is a function from its keys; an         *)
(* exception is named by its class.                                        *)
(* Units: raw yaw is in steps of pi/18 rad (10 degrees), latitude and      *)
(* longitude in hundredths of a degree, ground speed in 1e-5 mph, distance *)
(* in feet.                                                                *)
(***************************************************************************)
EXTENDS Integers, Sequences, FiniteSets, TLC

VARIABLES
    vehicle,      \* self.vehicle: "None" before connect(), "Vehicle" after
    self,         \* the handler's cached fields (UGVHandler.__init__)
    tel,          \* the link's live telemetry (attributes of the Vehicle)
    linkArmed,    \* vehicle.armed, as the link reports it
    linkArmable,  \* vehicle.is_armable, as the link reports it
    pendingArm,   \* an arm request was sent to the vehicle and not answered
    pendingDisarm,\* a disarm request was sent and not answered
    paramsReady,  \* the link's initial parameter download has completed
    parameters,   \* vehicle.parameters: key -> stored value
    pcall,        \* the parameter call standing at the readiness gate
    paramFile,    \* ugv_params.json: None until save_params has written it
    cmds,         \* vehicle.commands: the link's local command list
    mission,      \* the mission the vehicle holds (what upload() sent last)
    wpc,          \* position of each mission-writing thread
    apc,          \* position of the handler thread inside arm() / disarm()
    upc,          \* position of the refresh thread inside update() (0: idle)
    upre,         \* the cached fields when the running update() began
    qseen,        \* what quick() returned while an update() was running
    result,       \* outcome of the last handler call: [op, err]
    reply,        \* payload ("result" entry) of the last handler call
    trace         \* link / provider endpoints touched by the last call

vars == <<vehicle, self, tel, linkArmed, linkArmable, pendingArm,
          pendingDisarm, paramsReady, parameters, pcall, paramFile, cmds,
          mission, wpc, apc, upc, upre, qseen, result, reply, trace>>

telemetryVars == <<vehicle, self, tel>>
armVars == <<linkArmed, linkArmable, pendingArm, pendingDisarm, apc>>
paramVars == <<paramsReady, parameters, pcall, paramFile>>
missionVars == <<cmds, mission, wpc>>
concVars == <<upc, upre, qseen>>
callVars == <<result, reply, trace>>

----------------------------------------------------------------------------
(* Bounds of the model *)

\* telemetry readings 0..MaxReading the link can hold
MaxReading == 1
\* drop targets 1..MaxTarget the interop provider can answer with
MaxTarget == 2
\* longest keyword mapping passed to set_params
MaxKwargs == 2
\* waypoints 1..MaxWaypoint a caller can write
MaxWaypoint == 2
\* link calls recorded while mission writes overlap
MaxOverlap == 6

----------------------------------------------------------------------------
(* Python values *)

None == <<>>
Some(v) == <<v>>
Range(s) == {s[i] : i \in DOMAIN s}

\* {} : the empty dict
EmptyDict == [k \in {} |-> 0]

\* bool(v) of an optional dict: None and {} are falsy
Truthy(v) == v # None /\ DOMAIN v[1] # {}

VehicleMode(name) == <<"VehicleMode", name>>

\* a str object
str(text) == <<"str", text>>

\* value.name: the attribute, or None when the object has none
\* (AttributeError)
NameOf(value) == IF value[1] = "VehicleMode" THEN Some(value[2]) ELSE None

\* outcome of a handler call
Ok(op) == [op |-> op, err |-> "none"]
Raised(op, cls) == [op |-> op, err |-> cls]

----------------------------------------------------------------------------
(* The link's telemetry *)

\* math.pi in raw-yaw steps
PiSteps == 18

\* UGVHandler.mph, in 1e-5
mph == 223694

\* 69.172 * 5280 feet per degree, per hundredth of a degree
FeetPerStep == 3652

\* raw yaw values, in steps: -10, 370, 360, 170 and -370 degrees
RawYaws == <<-1, 37, 36, 17, -37>>

ModeNames == <<"MANUAL", "AUTO", "HOLD", "GUIDED">>

\* vehicle.system_status.state
SystemStates == <<"STANDBY", "ACTIVE">>

\* the telemetry of reading k
Telemetry(k) ==
    [yaw |-> RawYaws[(k % Len(RawYaws)) + 1], groundspeed |-> k,
     voltage |-> 12 - k, lat |-> k,
     lon |-> 2 * k,
     gps_0 |-> [eph |-> 100 + k, epv |-> 200 + k, satellites_visible |-> 8 - k],
     mode |-> VehicleMode(ModeNames[(k % Len(ModeNames)) + 1]),
     system_status |-> SystemStates[(k % Len(SystemStates)) + 1]]

Telemetries == {Telemetry(k) : k \in 0..MaxReading}

----------------------------------------------------------------------------
(* The interop provider: what gs.interop.get_data("ugv") answers *)

Target(i) == [latitude |-> i, longitude |-> 3 - i]

\* a response carrying a drop point
RespDrop(i) == [result |-> [drop |-> Target(i)]]

Responses ==
    {EmptyDict,                          \* {}
     [error |-> "unavailable"],           \* no "result"
     [result |-> EmptyDict],              \* empty result
     [result |-> [status |-> "pending"]]} \* result without "drop"
    \cup {RespDrop(i) : i \in 1..MaxTarget}

\* a dict that holds a drop point
IsValidTarget(d) == d # None /\ "drop" \in DOMAIN d[1]


----------------------------------------------------------------------------
(* UGVHandler.__init__ *)

InitSelf ==
    [yaw |-> None, ground_speed |-> None, droppos |-> None, dest |-> None,
     dist_to_dest |-> None, battery |-> None, lat |-> None, lon |-> None,
     connection |-> None, mode |-> VehicleMode("MANUAL"), gps |-> None,
     commands |-> <<>>, armed |-> FALSE, status |-> "BOOT"]

----------------------------------------------------------------------------
(* UGVHandler.update, statement by statement.  A statement is named by its *)
(* line; e is what the call meets: the live link (e.tel, e.armed), whether *)
(* self.vehicle is set (e.vehicle), the line of a link read that raises    *)
(* (e.fault, 0 for none) and the provider's answer (e.resp, None when      *)
(* get_data raises).                                                       *)

\* lines of update that read an attribute of self.vehicle
LinkReads == {142, 143, 144, 147, 151, 153, 164, 165}

\* the endpoint a line touches
Touched(L) ==
    CASE L = 142 -> <<"location">>
      [] L = 143 -> <<"attitude">>
      [] L = 144 -> <<"battery">>
      [] L = 147 -> <<"groundspeed">>
      [] L = 151 -> <<"gps_0">>
      [] L \in {153, 164} -> <<"mode">>
      [] L = 155 -> <<"get_data">>
      [] L = 165 -> <<"armed">>
      [] OTHER -> <<>>

\* math.cos(lat * math.pi / 180), in thousandths: 1.000 to three places for
\* the latitudes of the model (below 0.1 degree)
CosMilli(lat) == 1000

\* math.sqrt, rounded down
RECURSIVE SqrtBetween(_, _, _)
SqrtBetween(n, lo, hi) ==
    IF lo >= hi THEN lo
    ELSE LET mid == (lo + hi + 1) \div 2
         IN IF mid * mid <= n THEN SqrtBetween(n, mid, hi)
            ELSE SqrtBetween(n, lo, mid - 1)

Sqrt(n) == SqrtBetween(n, 0, 46340)

\* lines 157-162: the distance to the drop point, in feet
Distance(drop, lat, lon) ==
    LET x_dist == drop.latitude - lat
        y_dist == drop.longitude - lon
        x_dist_ft == (x_dist * CosMilli(lat) * FeetPerStep) \div 1000
        y_dist_ft == y_dist * FeetPerStep
    IN Sqrt(x_dist_ft * x_dist_ft + y_dist_ft * y_dist_ft)

\* line 145: rpy.yaw * 180 / math.pi
YawDegrees(raw) == (raw * 180) \div PiSteps

\* line 146: self.yaw += 360 if self.yaw < 0 else 0
NormalizeYaw(deg) == deg + (IF deg < 0 THEN 360 ELSE 0)

\* the statement at line L raises
UpdateRaises(L, s, e) ==
    \/ L \in LinkReads /\ (e.vehicle = "None" \/ e.fault = L)
    \/ L = 155 /\ e.resp = None
    \/ L = 156 /\ "result" \notin DOMAIN s.droppos[1]
    \/ L = 157 /\ "drop" \notin DOMAIN s.droppos[1]

\* the cached fields after the statement at line L
UpdateStatement(L, s, e) ==
    CASE L = 145 -> [s EXCEPT !.yaw = Some(YawDegrees(e.tel.yaw))]
      [] L = 146 -> [s EXCEPT !.yaw = Some(NormalizeYaw(s.yaw[1]))]
      [] L = 147 -> [s EXCEPT !.ground_speed = Some(e.tel.groundspeed * mph)]
      [] L = 148 -> [s EXCEPT !.battery = Some(e.tel.voltage)]
      [] L = 149 -> [s EXCEPT !.lat = Some(e.tel.lat)]
      [] L = 150 -> [s EXCEPT !.lon = Some(e.tel.lon)]
      [] L = 151 -> [s EXCEPT !.gps = Some(e.tel.gps_0)]
      [] L = 152 -> [s EXCEPT !.connection =
                        Some(<<s.gps[1].eph, s.gps[1].epv,
                               s.gps[1].satellites_visible>>)]
      [] L \in {153, 164} -> [s EXCEPT !.mode = e.tel.mode]
      [] L = 155 -> [s EXCEPT !.droppos = e.resp]
      [] L = 156 -> [s EXCEPT !.droppos = Some(s.droppos[1].result)]
      [] L = 162 -> [s EXCEPT !.dist_to_dest =
                        Some(Distance(s.droppos[1].drop, s.lat[1], s.lon[1]))]
      [] L = 163 -> [s EXCEPT !.dest = Some(<<s.droppos[1], s.dist_to_dest[1]>>)]
      [] L = 165 -> [s EXCEPT !.armed = e.armed]
      [] OTHER -> s   \* 142-144, 157-161 assign locals only

\* UpdateNextLine without the test of line 154: the target is fetched on
\* every refresh
UpdateNextLine_refetch(L, s) ==
    CASE L = 153 -> 155
      [] L = 157 -> 162
      [] L = 165 -> 0
      [] OTHER -> L + 1

\* the line after L (0: return); line 154 skips the fetch once droppos is set
UpdateNextLine(L, s) ==
    CASE L = 153 -> IF ~Truthy(s.droppos) THEN 155 ELSE 157
      [] L = 157 -> 162
      [] L = 165 -> 0
      [] OTHER -> L + 1

\* update() run from line L: the cached fields it leaves, the endpoints it
\* touched and the line that raised (0: it returned)
RECURSIVE RunUpdate(_, _, _, _)
RunUpdate(L, s, tr, e) ==
    IF L = 0 THEN [self |-> s, trace |-> tr, stop |-> 0]
    ELSE IF UpdateRaises(L, s, e)
         THEN [self |-> s, trace |-> tr \o Touched(L), stop |-> L]
         ELSE LET s2 == UpdateStatement(L, s, e)
              IN RunUpdate(UpdateNextLine(L, s2), s2, tr \o Touched(L), e)

\* what a call meets
Env(v, fault, resp) ==
    [vehicle |-> v, tel |-> tel, armed |-> linkArmed, fault |-> fault,
     resp |-> resp]

Faults == LinkReads \cup {0}

\* the provider's answers a call with this fault can meet: get_data is
\* reached only when no earlier line raises and droppos is falsy
Answers(fault) ==
    IF (fault # 0 /\ fault < 155) \/ Truthy(self.droppos)
    THEN {None}
    ELSE {None} \cup {Some(r) : r \in Responses}

\* update(), as one call
update(fault, resp) ==
    /\ upc = 0
    /\ \E r \in {RunUpdate(142, self, <<>>, Env(vehicle, fault, resp))} :
          /\ self' = r.self
          /\ trace' = r.trace
          /\ result' = IF r.stop = 0 THEN Ok("update")
                       ELSE Raised("update", "GeneralError")
    /\ reply' = None
    /\ UNCHANGED <<vehicle, tel, armVars, paramVars, concVars, missionVars>>

\* connect(): established says whether dronekit's connect returned a Vehicle
connect(established, fault, resp) ==
    /\ upc = 0
    /\ IF ~established
       THEN /\ result' = Raised("connect", "GeneralError")
            /\ trace' = <<"connect">>
            /\ UNCHANGED <<vehicle, self>>
       ELSE \E r \in {RunUpdate(142, self, <<"connect">>,
                                 Env("Vehicle", fault, resp))} :
               /\ vehicle' = "Vehicle"
               /\ self' = r.self
               /\ trace' = r.trace
               /\ result' = IF r.stop = 0 THEN Ok("connect")
                            ELSE Raised("connect", "GeneralError")
    /\ reply' = None
    /\ UNCHANGED <<tel, armVars, paramVars, concVars, missionVars>>

\* the dict quick() builds from the cached fields s
QuickResult(s) ==
    [yaw |-> s.yaw, lat |-> s.lat, lon |-> s.lon,
     ground_speed |-> s.ground_speed, battery |-> s.battery,
     destination |-> s.dest, connection |-> s.connection]

\* quick(); qseen keeps what it returned when an update() was running
quick ==
    /\ result' = Ok("quick")
    /\ reply' = Some(QuickResult(self))
    /\ qseen' = IF upc # 0 THEN Some(QuickResult(self)) ELSE qseen
    /\ trace' = IF upc # 0 THEN trace ELSE <<>>
    /\ UNCHANGED <<telemetryVars, armVars, paramVars, missionVars, upc, upre>>

\* update() on the refresh thread, entered: the thread stands at line 142
update_begin ==
    /\ upc = 0
    /\ upc' = 142
    /\ upre' = self
    /\ qseen' = None
    /\ result' = Raised("update", "running")
    /\ reply' = None
    /\ trace' = <<>>
    /\ UNCHANGED <<telemetryVars, armVars, paramVars, missionVars>>

\* update() on the refresh thread: the statement at line upc
update_step(fault, resp) ==
    /\ upc # 0
    /\ \E e \in {Env(vehicle, fault, resp)} :
          IF UpdateRaises(upc, self, e)
          THEN /\ result' = Raised("update", "GeneralError")
               /\ upc' = 0
               /\ UNCHANGED self
          ELSE /\ self' = UpdateStatement(upc, self, e)
               /\ upc' = UpdateNextLine(upc, self')
               /\ result' = IF upc' = 0 THEN Ok("update")
                            ELSE Raised("update", "running")
    /\ trace' = trace \o Touched(upc)
    /\ reply' = None
    /\ UNCHANGED <<vehicle, tel, armVars, paramVars, missionVars, upre,
                   qseen>>

\* the vehicle sends new telemetry
LinkTelemetry ==
    /\ upc = 0
    /\ tel' \in Telemetries \ {tel}
    /\ UNCHANGED <<vehicle, self, armVars, paramVars, concVars, missionVars, callVars>>

----------------------------------------------------------------------------
(* Arming: get_armed, arm, disarm.  arm() and disarm() block on the link   *)
(* for up to 15 s; apc is where the calling thread stands, and the vehicle *)
(* acts on its own meanwhile.                                              *)

\* lines 368-373: the classification get_armed returns
ArmedState(armed, armable) ==
    IF armed THEN "ARMED"
    ELSE IF armable THEN "DISARMED (ARMABLE)"
    ELSE "DISARMED (NOT ARMABLE)"

get_armed ==
    /\ apc = "idle"
    /\ IF vehicle = "None"
       THEN /\ result' = Raised("get_armed", "GeneralError")
            /\ reply' = None
            /\ trace' = <<>>
       ELSE /\ result' = Ok("get_armed")
            /\ reply' = Some(ArmedState(linkArmed, linkArmable))
            /\ trace' = IF linkArmed THEN <<"armed">>
                        ELSE <<"armed", "is_armable">>
    /\ UNCHANGED <<telemetryVars, armVars, paramVars, concVars, missionVars>>

\* exception classes the link's blocking calls end with when the deadline
\* passes: dronekit's own TimeoutError (an APIException, raised by
\* Vehicle.wait_for) or the builtin TimeoutError
DeadlineExceptions == {"dronekit.TimeoutError", "TimeoutError"}

\* lines 383-388 and 394-397: the except clauses of arm() and disarm().
\* prod.py imports no TimeoutError from dronekit (line 9), so the clause at
\* lines 383 / 394 names the builtin class.
ArmExcept(cls) ==
    CASE cls = "TimeoutError" -> "TimeoutError"
      [] cls = "InvalidStateError" -> "InvalidStateError"
      [] OTHER -> "GeneralError"

DisarmExcept(cls) ==
    CASE cls = "TimeoutError" -> "TimeoutError"
      [] OTHER -> "GeneralError"

\* arm() that does not test is_armable
arm_unchecked ==
    /\ apc = "idle"
    /\ IF vehicle = "None"
       THEN /\ result' = Raised("arm", ArmExcept("AttributeError"))
            /\ trace' = <<>>
            /\ apc' = "idle"
       ELSE /\ result' = Raised("arm", "running")
            /\ trace' = <<"is_armable">>
            /\ apc' = "arm_checked"
    /\ reply' = None
    /\ UNCHANGED <<telemetryVars, linkArmed, linkArmable, pendingArm,
                   pendingDisarm, paramVars, concVars, missionVars>>

\* arm(), lines 378-380: the precondition
arm ==
    /\ apc = "idle"
    /\ IF vehicle = "None"
       THEN /\ result' = Raised("arm", ArmExcept("AttributeError"))
            /\ trace' = <<>>
            /\ apc' = "idle"
       ELSE IF ~linkArmable
       THEN /\ result' = Raised("arm", ArmExcept("InvalidStateError"))
            /\ trace' = <<"is_armable">>
            /\ apc' = "idle"
       ELSE /\ result' = Raised("arm", "running")
            /\ trace' = <<"is_armable">>
            /\ apc' = "arm_checked"
    /\ reply' = None
    /\ UNCHANGED <<telemetryVars, linkArmed, linkArmable, pendingArm,
                   pendingDisarm, paramVars, concVars, missionVars>>

\* arm(), line 381: the request goes out and the call waits
arm_request ==
    /\ apc = "arm_checked"
    /\ pendingArm' = TRUE
    /\ trace' = Append(trace, "arm")
    /\ apc' = "arm_wait"
    /\ UNCHANGED <<telemetryVars, linkArmed, linkArmable, pendingDisarm,
                   paramVars, concVars, missionVars, result, reply>>

\* arm_return that stores the outcome of the call in self.armed
arm_return_caching ==
    /\ apc = "arm_wait"
    /\ linkArmed
    /\ result' = Ok("arm")
    /\ apc' = "idle"
    /\ self' = [self EXCEPT !.armed = TRUE]
    /\ UNCHANGED <<vehicle, tel, linkArmed, linkArmable, pendingArm,
                   pendingDisarm, paramVars, concVars, missionVars, reply,
                   trace>>

\* arm(), line 382: the vehicle reported armed within the deadline
arm_return ==
    /\ apc = "arm_wait"
    /\ linkArmed
    /\ result' = Ok("arm")
    /\ apc' = "idle"
    /\ UNCHANGED <<telemetryVars, linkArmed, linkArmable, pendingArm,
                   pendingDisarm, paramVars, concVars, missionVars, reply, trace>>

\* arm(), lines 383-388: the deadline passed with the vehicle not armed; the
\* request is not retracted
arm_timeout(cls) ==
    /\ apc = "arm_wait"
    /\ ~linkArmed
    /\ result' = Raised("arm", ArmExcept(cls))
    /\ apc' = "idle"
    /\ UNCHANGED <<telemetryVars, linkArmed, linkArmable, pendingArm,
                   pendingDisarm, paramVars, concVars, missionVars, reply, trace>>

\* disarm(), line 392: the request goes out and the call waits
disarm ==
    /\ apc = "idle"
    /\ IF vehicle = "None"
       THEN /\ result' = Raised("disarm", DisarmExcept("AttributeError"))
            /\ trace' = <<>>
            /\ UNCHANGED <<apc, pendingDisarm>>
       ELSE /\ result' = Raised("disarm", "running")
            /\ trace' = <<"disarm">>
            /\ pendingDisarm' = TRUE
            /\ apc' = "disarm_wait"
    /\ reply' = None
    /\ UNCHANGED <<telemetryVars, linkArmed, linkArmable, pendingArm,
                   paramVars, concVars, missionVars>>

\* disarm(), line 393: the vehicle reported disarmed within the deadline
disarm_return ==
    /\ apc = "disarm_wait"
    /\ ~linkArmed
    /\ result' = Ok("disarm")
    /\ apc' = "idle"
    /\ UNCHANGED <<telemetryVars, linkArmed, linkArmable, pendingArm,
                   pendingDisarm, paramVars, concVars, missionVars, reply, trace>>

\* disarm(), lines 394-397: the deadline passed with the vehicle still armed
disarm_timeout(cls) ==
    /\ apc = "disarm_wait"
    /\ linkArmed
    /\ result' = Raised("disarm", DisarmExcept(cls))
    /\ apc' = "idle"
    /\ UNCHANGED <<telemetryVars, linkArmed, linkArmable, pendingArm,
                   pendingDisarm, paramVars, concVars, missionVars, reply, trace>>

\* the vehicle's pre-arm checks change their verdict
LinkArmability ==
    /\ linkArmable' = ~linkArmable
    /\ UNCHANGED <<telemetryVars, linkArmed, pendingArm, pendingDisarm, apc,
                   paramVars, concVars, missionVars, callVars>>

\* the vehicle acts on an arm request
LinkArms ==
    /\ pendingArm
    /\ linkArmed' = TRUE
    /\ pendingArm' = FALSE
    /\ UNCHANGED <<telemetryVars, linkArmable, pendingDisarm, apc, paramVars,
                   concVars, missionVars, callVars>>

\* the vehicle drops an arm request
LinkRefusesArm ==
    /\ pendingArm
    /\ pendingArm' = FALSE
    /\ UNCHANGED <<telemetryVars, linkArmed, linkArmable, pendingDisarm, apc,
                   paramVars, concVars, missionVars, callVars>>

\* the vehicle acts on a disarm request
LinkDisarms ==
    /\ pendingDisarm
    /\ linkArmed' = FALSE
    /\ pendingDisarm' = FALSE
    /\ UNCHANGED <<telemetryVars, linkArmable, pendingArm, apc, paramVars,
                   concVars, missionVars, callVars>>

\* the vehicle drops a disarm request
LinkRefusesDisarm ==
    /\ pendingDisarm
    /\ pendingDisarm' = FALSE
    /\ UNCHANGED <<telemetryVars, linkArmed, linkArmable, pendingArm, apc,
                   paramVars, concVars, missionVars, callVars>>

----------------------------------------------------------------------------
(* Parameters: get_param, get_params, set_param, set_params, save_params,  *)
(* load_params.  A value is the string the request carries;                *)
(* vehicle.parameters keeps what it is handed.  Each of the six is wrapped *)
(* by wait_for_param_load: a call first stands at the gate (pcall) and its *)
(* body runs once the gate lets it through.                                *)

ParamKeys == {"THR_MAX", "WP_SPEED"}
ParamValues == {"3.14", "2", "abc"}

\* the parameter set the vehicle reports once its download has completed
VehicleParameters == [k \in {"THR_MAX"} |-> "1.0"]

\* float(value): the number in hundredths, or None when float raises
\* ValueError
float(value) ==
    CASE value = "3.14" -> Some(314)
      [] value = "2" -> Some(200)
      [] value = "1.0" -> Some(100)
      [] OTHER -> None

\* vehicle.parameters[key] = value
ParametersSet(params, key, value) ==
    [k \in DOMAIN params \cup {key} |-> IF k = key THEN value ELSE params[k]]

\* mappings of up to MaxKwargs keys, as the sequence of (key, value) pairs
\* kwargs.items() yields
Kwargs ==
    {kw \in UNION {[1..n -> ParamKeys \X ParamValues] : n \in 0..MaxKwargs} :
        \A i, j \in DOMAIN kw : i # j => kw[i][1] # kw[j][1]}

\* a parameter call and its arguments; at is where it stands ("gate": held
\* by the decorator, "idle": none in progress) and waited says whether the
\* gate was closed when the call arrived
Call(op, key, value, kw, waited) ==
    [at |-> "gate", op |-> op, key |-> key, value |-> value, kw |-> kw,
     waited |-> waited]

NoCall ==
    [at |-> "idle", op |-> "", key |-> "", value |-> "", kw |-> <<>>,
     waited |-> FALSE]

\* the call that stood at the gate has returned
Returned(c) == [NoCall EXCEPT !.waited = c.waited]

ParamCalls(waited) ==
    {Call("get_param", key, "", <<>>, waited) : key \in ParamKeys}
    \cup {Call(op, "", "", <<>>, waited) :
             op \in {"get_params", "save_params", "load_params"}}
    \cup {Call("set_param", key, value, <<>>, waited) :
             key \in ParamKeys, value \in ParamValues}
    \cup {Call("set_params", "", "", kw, waited) : kw \in Kwargs}

\* the wait_for_param_load decorator: the wrapped call is serviced once the
\* link's initial parameter set has loaded
wait_for_param_load == paramsReady

\* a caller enters one of the six decorated methods
param_call(c) ==
    /\ pcall.at = "idle"
    /\ c \in ParamCalls(~wait_for_param_load)
    /\ pcall' = c
    /\ result' = Raised(c.op, "running")
    /\ reply' = None
    /\ trace' = <<>>
    /\ UNCHANGED <<telemetryVars, armVars, paramsReady, parameters, paramFile,
                   concVars, missionVars>>

\* the link finishes its initial parameter download
LinkParametersLoaded ==
    /\ vehicle = "Vehicle"
    /\ ~paramsReady
    /\ paramsReady' = TRUE
    /\ parameters' = VehicleParameters
    /\ UNCHANGED <<telemetryVars, armVars, pcall, paramFile, concVars,
                   missionVars, callVars>>

\* get_param without the decorator
get_param_undecorated(key) ==
    /\ pcall = Call("get_param", key, "", <<>>, pcall.waited)
    /\ IF key \in DOMAIN parameters
       THEN /\ result' = Ok("get_param")
            /\ reply' = Some(parameters[key])
       ELSE /\ result' = Raised("get_param", "GeneralError")
            /\ reply' = None
    /\ trace' = <<"parameters.get">>
    /\ pcall' = Returned(pcall)
    /\ UNCHANGED <<telemetryVars, armVars, paramsReady, parameters, paramFile,
                   concVars, missionVars>>

get_param(key) ==
    /\ pcall = Call("get_param", key, "", <<>>, pcall.waited)
    /\ wait_for_param_load
    /\ IF key \in DOMAIN parameters
       THEN /\ result' = Ok("get_param")
            /\ reply' = Some(parameters[key])
       ELSE /\ result' = Raised("get_param", "GeneralError")
            /\ reply' = None
    /\ trace' = <<"parameters.get">>
    /\ pcall' = Returned(pcall)
    /\ UNCHANGED <<telemetryVars, armVars, paramsReady, parameters, paramFile,
                   concVars, missionVars>>

\* get_params(): a dict of the items of vehicle.parameters
get_params ==
    /\ pcall = Call("get_params", "", "", <<>>, pcall.waited)
    /\ wait_for_param_load
    /\ result' = Ok("get_params")
    /\ reply' = Some(parameters)
    /\ trace' = <<"parameters.items">>
    /\ pcall' = Returned(pcall)
    /\ UNCHANGED <<telemetryVars, armVars, paramsReady, parameters, paramFile,
                   concVars, missionVars>>

\* set_param with the write before the float test
set_param_write_first(key, value, linkOk) ==
    /\ pcall = Call("set_param", key, value, <<>>, pcall.waited)
    /\ wait_for_param_load
    /\ IF ~linkOk
       THEN /\ result' = Raised("set_param", "GeneralError")
            /\ UNCHANGED parameters
       ELSE /\ parameters' = ParametersSet(parameters, key, value)
            /\ result' = IF float(value) = None
                         THEN Raised("set_param", "InvalidRequestError")
                         ELSE Ok("set_param")
    /\ trace' = <<"parameters.set">>
    /\ reply' = None
    /\ pcall' = Returned(pcall)
    /\ UNCHANGED <<telemetryVars, armVars, paramsReady, paramFile, concVars,
                   missionVars>>

\* set_param(key, value); linkOk says whether the link accepts the write
set_param(key, value, linkOk) ==
    /\ pcall = Call("set_param", key, value, <<>>, pcall.waited)
    /\ wait_for_param_load
    /\ IF float(value) = None
       THEN /\ result' = Raised("set_param", "InvalidRequestError")
            /\ trace' = <<>>
            /\ UNCHANGED parameters
       ELSE IF ~linkOk
       THEN /\ result' = Raised("set_param", "GeneralError")
            /\ trace' = <<"parameters.set">>
            /\ UNCHANGED parameters
       ELSE /\ result' = Ok("set_param")
            /\ trace' = <<"parameters.set">>
            /\ parameters' = ParametersSet(parameters, key, value)
    /\ reply' = None
    /\ pcall' = Returned(pcall)
    /\ UNCHANGED <<telemetryVars, armVars, paramsReady, paramFile, concVars,
                   missionVars>>

\* lines 277-284: the loop of set_params from item i on; failAt is the item
\* whose link write raises (0: none).  Yields the parameters, the endpoints
\* touched and the class raised inside the try ("none": the loop ended)
RECURSIVE SetParamsLoop(_, _, _, _, _)
SetParamsLoop(i, kw, params, tr, failAt) ==
    IF i > Len(kw) THEN [parameters |-> params, trace |-> tr, err |-> "none"]
    ELSE IF float(kw[i][2]) = None
    THEN [parameters |-> params, trace |-> tr, err |-> "InvalidRequestError"]
    ELSE IF failAt = i
    THEN [parameters |-> params, trace |-> Append(tr, "parameters.set"),
          err |-> "Exception"]
    ELSE SetParamsLoop(i + 1, kw, ParametersSet(params, kw[i][1], kw[i][2]),
                       Append(tr, "parameters.set"), failAt)

\* set_params(**kwargs); lines 286-287 wrap whatever the loop raised
set_params(kw, failAt) ==
    /\ pcall = Call("set_params", "", "", kw, pcall.waited)
    /\ wait_for_param_load
    /\ \E r \in {SetParamsLoop(1, kw, parameters, <<>>, failAt)} :
          /\ parameters' = r.parameters
          /\ trace' = r.trace
          /\ result' = IF r.err = "none" THEN Ok("set_params")
                       ELSE Raised("set_params", "GeneralError")
    /\ reply' = None
    /\ pcall' = Returned(pcall)
    /\ UNCHANGED <<telemetryVars, armVars, paramsReady, paramFile, concVars,
                   missionVars>>

\* save_params(): json.dump of vehicle.parameters into ugv_params.json;
\* fileOk says whether the file could be opened for writing
save_params(fileOk) ==
    /\ pcall = Call("save_params", "", "", <<>>, pcall.waited)
    /\ wait_for_param_load
    /\ IF fileOk
       THEN /\ paramFile' = Some(parameters)
            /\ trace' = <<"parameters.items">>
            /\ result' = Ok("save_params")
       ELSE /\ UNCHANGED paramFile
            /\ trace' = <<>>
            /\ result' = Raised("save_params", "GeneralError")
    /\ reply' = None
    /\ pcall' = Returned(pcall)
    /\ UNCHANGED <<telemetryVars, armVars, paramsReady, parameters, concVars,
                   missionVars>>

\* load_params(): vehicle.parameters becomes what ugv_params.json holds
load_params ==
    /\ pcall = Call("load_params", "", "", <<>>, pcall.waited)
    /\ wait_for_param_load
    /\ IF paramFile = None
       THEN /\ UNCHANGED parameters
            /\ trace' = <<>>
            /\ result' = Raised("load_params", "GeneralError")
       ELSE /\ parameters' = paramFile[1]
            /\ trace' = <<"parameters.assign">>
            /\ result' = Ok("load_params")
    /\ reply' = None
    /\ pcall' = Returned(pcall)
    /\ UNCHANGED <<telemetryVars, armVars, paramsReady, paramFile, concVars,
                   missionVars>>

----------------------------------------------------------------------------
(* Mission: get_commands, write_command, clear_commands.  vehicle.commands *)
(* is the link's local command list (cmds); upload() sends it to the       *)
(* vehicle (mission) and download() fetches the vehicle's mission into it. *)

\* Command(0, 0, 0, frame, command, 0, 0, 0, 0, 0, 0, x, y, z)
Command(frame, command, x, y, z) ==
    [frame |-> frame, command |-> command, x |-> x, y |-> y, z |-> z]

\* lines 333-350: the command write_command builds
Waypoint(lat, lon, alt) ==
    Command("MAV_FRAME_GLOBAL_RELATIVE_ALT", "MAV_CMD_NAV_WAYPOINT",
            lat, lon, alt)

\* cmd.to_dict()
to_dict(cmd) ==
    [mavpackettype |-> "MISSION_ITEM", frame |-> cmd.frame,
     command |-> cmd.command, x |-> cmd.x, y |-> cmd.y, z |-> cmd.z]

\* [cmd.to_dict() for cmd in commands]
ToDicts(commands) == [i \in DOMAIN commands |-> to_dict(commands[i])]

\* the (lat, lon, alt) a caller passes
Coordinates == {<<k, 2 * k, 10 * k>> : k \in 1..MaxWaypoint}

\* the mission the vehicle holds when the handler is constructed
StoredMission == <<Command("MAV_FRAME_GLOBAL", "MAV_CMD_NAV_LAND", 0, 0, 0)>>

\* the link calls of a mission write, in source order: lines 332, 333, 351
\* and lines 358, 359
MissionSteps(op) ==
    IF op = "write_command" THEN <<"clear", "add", "upload">>
    ELSE <<"clear", "upload">>

\* cmds and mission after one link call
MissionStatement(step, c, m, args) ==
    CASE step = "clear" -> [cmds |-> <<>>, mission |-> m]
      [] step = "add" ->
            [cmds |-> Append(c, Waypoint(args[1], args[2], args[3])),
             mission |-> m]
      [] step = "upload" -> [cmds |-> c, mission |-> c]

\* the link calls from the i-th on; failAt is the call that raises (0: none)
RECURSIVE RunMission(_, _, _, _, _, _, _)
RunMission(steps, i, c, m, args, tr, failAt) ==
    IF i > Len(steps) THEN [cmds |-> c, mission |-> m, trace |-> tr, ok |-> TRUE]
    ELSE IF failAt = i
    THEN [cmds |-> c, mission |-> m,
          trace |-> Append(tr, "commands." \o steps[i]), ok |-> FALSE]
    ELSE LET r == MissionStatement(steps[i], c, m, args)
         IN RunMission(steps, i + 1, r.cmds, r.mission, args,
                       Append(tr, "commands." \o steps[i]), failAt)

\* the threads that write missions
Writers == {1, 2}

WriterIdle == [op |-> "", i |-> 0, args |-> <<>>]

NoWriter == \A w \in Writers : wpc[w].i = 0

\* a mission write as one call
MissionWrite(op, steps, args, failAt) ==
    /\ NoWriter
    /\ IF vehicle = "None"
       THEN /\ result' = Raised(op, "GeneralError")
            /\ trace' = <<>>
            /\ UNCHANGED <<cmds, mission>>
       ELSE \E r \in {RunMission(steps, 1, cmds, mission, args, <<>>, failAt)} :
               /\ cmds' = r.cmds
               /\ mission' = r.mission
               /\ trace' = r.trace
               /\ result' = IF r.ok THEN Ok(op) ELSE Raised(op, "GeneralError")
    /\ reply' = None
    /\ UNCHANGED <<telemetryVars, armVars, paramVars, concVars, wpc>>

\* write_command that does not clear the list first
write_command_no_clear(lat, lon, alt, failAt) ==
    MissionWrite("write_command", <<"add", "upload">>, <<lat, lon, alt>>,
                 failAt)

write_command(lat, lon, alt, failAt) ==
    MissionWrite("write_command", MissionSteps("write_command"),
                 <<lat, lon, alt>>, failAt)

clear_commands(failAt) ==
    MissionWrite("clear_commands", MissionSteps("clear_commands"), <<>>,
                 failAt)

\* get_commands(); linkOk says whether download and wait_ready return
get_commands(linkOk) ==
    /\ NoWriter
    /\ IF vehicle = "None"
       THEN /\ result' = Raised("get_commands", "GeneralError")
            /\ reply' = None
            /\ trace' = <<>>
            /\ UNCHANGED cmds
       ELSE IF ~linkOk
       THEN /\ result' = Raised("get_commands", "GeneralError")
            /\ reply' = None
            /\ trace' = <<"commands.download">>
            /\ UNCHANGED cmds
       ELSE /\ result' = Ok("get_commands")
            /\ cmds' = mission
            /\ reply' = Some(ToDicts(mission))
            /\ trace' = <<"commands.download", "commands.wait_ready">>
    /\ UNCHANGED <<telemetryVars, armVars, paramVars, concVars, mission, wpc>>

\* a thread enters write_command or clear_commands; the record of link
\* calls made by overlapping calls is kept up to MaxOverlap entries
mission_begin(w, op, args) ==
    /\ wpc[w].i = 0
    /\ NoWriter \/ Len(trace) + Len(MissionSteps(op)) <= MaxOverlap
    /\ IF vehicle = "None"
       THEN /\ result' = Raised(op, "GeneralError")
            /\ UNCHANGED wpc
       ELSE /\ result' = Raised(op, "running")
            /\ wpc' = [wpc EXCEPT ![w] = [op |-> op, i |-> 1, args |-> args]]
    /\ reply' = None
    /\ trace' = IF NoWriter THEN <<>> ELSE trace
    /\ UNCHANGED <<telemetryVars, armVars, paramVars, concVars, cmds, mission>>

\* the next link call of thread w; fail says whether it raises
mission_step(w, fail) ==
    /\ wpc[w].i # 0
    /\ LET steps == MissionSteps(wpc[w].op)
           step == steps[wpc[w].i]
           r == MissionStatement(step, cmds, mission, wpc[w].args)
           last == wpc[w].i = Len(steps)
       IN /\ trace' = Append(trace, "commands." \o step)
          /\ IF fail
             THEN /\ result' = Raised(wpc[w].op, "GeneralError")
                  /\ wpc' = [wpc EXCEPT ![w] = WriterIdle]
                  /\ UNCHANGED <<cmds, mission>>
             ELSE /\ cmds' = r.cmds
                  /\ mission' = r.mission
                  /\ result' = IF last THEN Ok(wpc[w].op) ELSE result
                  /\ wpc' = [wpc EXCEPT ![w] =
                                IF last THEN WriterIdle
                                ELSE [@ EXCEPT !.i = @ + 1]]
    /\ reply' = None
    /\ UNCHANGED <<telemetryVars, armVars, paramVars, concVars>>

----------------------------------------------------------------------------
(* Status and flight mode: stats, set_flight_mode, get_flight_mode *)

\* set_flight_mode(flightmode), line 230: the chained assignment stores into
\* self.mode first and into vehicle.mode second; linkOk says whether the
\* link takes the write.  The vehicle changes mode on its own time.
set_flight_mode(flightmode, linkOk) ==
    /\ upc = 0
    /\ self' = [self EXCEPT !.mode = VehicleMode(flightmode)]
    /\ IF vehicle = "None"
       THEN /\ result' = Raised("set_flight_mode", "GeneralError")
            /\ trace' = <<>>
       ELSE /\ result' = IF linkOk THEN Ok("set_flight_mode")
                         ELSE Raised("set_flight_mode", "GeneralError")
            /\ trace' = <<"mode=">>
    /\ reply' = None
    /\ UNCHANGED <<vehicle, tel, armVars, paramVars, concVars, missionVars>>

\* get_flight_mode(), line 237: self.mode becomes the name, a str
get_flight_mode ==
    /\ upc = 0
    /\ IF vehicle = "None"
       THEN /\ result' = Raised("get_flight_mode", "GeneralError")
            /\ reply' = None
            /\ trace' = <<>>
            /\ UNCHANGED self
       ELSE /\ self' = [self EXCEPT !.mode = str(tel.mode[2])]
            /\ result' = Ok("get_flight_mode")
            /\ reply' = Some(self'.mode)
            /\ trace' = <<"mode">>
    /\ UNCHANGED <<vehicle, tel, armVars, paramVars, concVars, missionVars>>

\* stats(), lines 184-192: the entries are evaluated in source order and no
\* except clause surrounds them
stats ==
    /\ upc = 0
    /\ apc = "idle"
    /\ IF NameOf(self.mode) = None
       THEN /\ result' = Raised("stats", "AttributeError")
            /\ reply' = None
            /\ trace' = <<>>
       ELSE IF vehicle = "None"
       THEN /\ result' = Raised("stats", "GeneralError")
            /\ reply' = None
            /\ trace' = <<>>
       ELSE /\ result' = Ok("stats")
            /\ reply' = Some([quick |-> QuickResult(self),
                              mode |-> NameOf(self.mode)[1],
                              commands |-> ToDicts(self.commands),
                              armed |-> ArmedState(linkArmed, linkArmable),
                              status |-> tel.system_status])
            /\ trace' = (IF linkArmed THEN <<"armed">>
                         ELSE <<"armed", "is_armable">>)
                        \o <<"system_status">>
    /\ UNCHANGED <<telemetryVars, armVars, paramVars, concVars, missionVars>>

----------------------------------------------------------------------------
Init ==
    /\ vehicle = "None"
    /\ self = InitSelf
    /\ tel \in Telemetries
    /\ linkArmed = FALSE
    /\ linkArmable \in BOOLEAN
    /\ pendingArm = FALSE
    /\ pendingDisarm = FALSE
    /\ paramsReady = FALSE
    /\ parameters = EmptyDict
    /\ pcall = NoCall
    /\ paramFile = None
    /\ cmds = <<>>
    /\ mission = StoredMission
    /\ wpc = [w \in Writers |-> WriterIdle]
    /\ apc = "idle"
    /\ upc = 0
    /\ upre = InitSelf
    /\ qseen = None
    /\ result = Ok("init")
    /\ reply = None
    /\ trace = <<>>

\* Init with the link at its first telemetry reading and armable
InitOneLink ==
    /\ Init
    /\ tel = Telemetry(0)
    /\ linkArmable = TRUE

NextTelemetry ==
    \/ \E fault \in Faults : \E resp \in Answers(fault) :
          connect(TRUE, fault, resp)
    \/ connect(FALSE, 0, None)
    \/ \E fault \in Faults : \E resp \in Answers(fault) : update(fault, resp)
    \/ quick
    \/ LinkTelemetry

SpecTelemetry == Init /\ [][NextTelemetry]_vars


----------------------------------------------------------------------------
(* Refresh: claims C2, C8, C9, C10 (SpecTelemetry) *)

\* a step of update()
UpdateStep == \E fault \in Faults : \E resp \in Answers(fault) : update(fault, resp)

\* the published snapshot fields
Published(s) ==
    [yaw |-> s.yaw, ground_speed |-> s.ground_speed, battery |-> s.battery,
     lat |-> s.lat, lon |-> s.lon, connection |-> s.connection,
     gps |-> s.gps, mode |-> s.mode, armed |-> s.armed,
     droppos |-> s.droppos, dist_to_dest |-> s.dist_to_dest,
     dest |-> s.dest]

\* C2: an update() that raises leaves every published snapshot field as it
\* was before the call.
C2_FailedRefreshKeepsSnapshot ==
    [][(UpdateStep /\ result'.err # "none")
          => Published(self') = Published(self)]_vars

\* C8: once a valid drop target is cached, no update() calls the provider
\* again and the cached target never changes.
C8_TargetFetchedOnce ==
    [][IsValidTarget(self.droppos)
          => /\ self'.droppos = self.droppos
             /\ ("get_data" \in Range(trace') => ~UpdateStep)]_vars

\* C8 witness: an update() returned with the target already cached and the
\* provider not called.
C8_Witness ==
    /\ result = Ok("update")
    /\ IsValidTarget(self.droppos)
    /\ "get_data" \notin Range(trace)

\* C9: a failed target fetch leaves the cached target unset (so that the
\* next refresh fetches again), and the distance is non-null only when a
\* valid target is cached.
C9_FailedFetchLeavesTargetUnset ==
    /\ Truthy(self.droppos) => IsValidTarget(self.droppos)
    /\ self.dist_to_dest # None => IsValidTarget(self.droppos)

\* C10: after every successful refresh the published yaw lies in [0, 360).
C10_YawInRange ==
    (result.op \in {"update", "connect"} /\ result.err = "none")
        => (self.yaw # None /\ 0 <= self.yaw[1] /\ self.yaw[1] < 360)


\* a step of connect()
ConnectStep ==
    \/ connect(FALSE, 0, None)
    \/ \E fault \in Faults : \E resp \in Answers(fault) :
          connect(TRUE, fault, resp)

\* C11: a connect() that raises leaves self.vehicle as it was before the
\* call and keeps no partially refreshed snapshot.
C11_FailedConnectRetainsNothing ==
    [][(result'.op = "connect" /\ result'.err # "none" /\ ConnectStep)
          => (vehicle' = vehicle /\ Published(self') = Published(self))]_vars

----------------------------------------------------------------------------
(* Arming: claims C1, C6, C7 (SpecArming) *)

NextArming ==
    \/ connect(TRUE, 0, Some(RespDrop(1)))
    \/ \E fault \in {0, 165} : update(fault, None)
    \/ get_armed
    \/ arm
    \/ arm_request
    \/ arm_return
    \/ \E cls \in DeadlineExceptions : arm_timeout(cls)
    \/ disarm
    \/ disarm_return
    \/ \E cls \in DeadlineExceptions : disarm_timeout(cls)
    \/ LinkArmability
    \/ LinkArms
    \/ LinkRefusesArm
    \/ LinkDisarms
    \/ LinkRefusesDisarm

SpecArming == Init /\ [][NextArming]_vars

\* C1: arm() called while the link reports not-armable raises
\* InvalidStateError and sends no arm request.
C1_ArmRefusedWhenNotArmable ==
    [][(arm /\ vehicle = "Vehicle" /\ ~linkArmable)
          => /\ result' = Raised("arm", "InvalidStateError")
             /\ apc' = "idle"
             /\ "arm" \notin Range(trace')
             /\ pendingArm' = pendingArm]_vars

\* C1 witness: an arm() was refused with the link not armable and no
\* request outstanding.
C1_Witness ==
    /\ result = Raised("arm", "InvalidStateError")
    /\ vehicle = "Vehicle"
    /\ ~linkArmable
    /\ ~pendingArm
    /\ trace = <<"is_armable">>

\* C6: an arm() or disarm() whose request does not complete within the
\* deadline raises the timeout error, never the generic one.
C6_TimeoutIsDistinct ==
    [][((\E cls \in DeadlineExceptions : arm_timeout(cls))
        \/ (\E cls \in DeadlineExceptions : disarm_timeout(cls)))
          => result'.err = "TimeoutError"]_vars

\* the classification get_armed would return now
Classification == ArmedState(linkArmed, linkArmable)

\* C7: the classification becomes ARMED only from DISARMED (ARMABLE) and
\* only by a request of arm(), and leaves ARMED only by a request of
\* disarm().
C7_ArmingStateMachine ==
    [][/\ (Classification # "ARMED" /\ Classification' = "ARMED")
            => (Classification = "DISARMED (ARMABLE)" /\ pendingArm)
       /\ (Classification = "ARMED" /\ Classification' # "ARMED")
            => pendingDisarm]_vars


\* a step of arm() or disarm()
ArmDisarmStep ==
    \/ arm
    \/ arm_request
    \/ arm_return
    \/ \E cls \in DeadlineExceptions : arm_timeout(cls)
    \/ disarm
    \/ disarm_return
    \/ \E cls \in DeadlineExceptions : disarm_timeout(cls)

\* a refresh that returned: update(), alone or at the end of connect()
RefreshReturned ==
    /\ result'.err = "none"
    /\ connect(TRUE, 0, Some(RespDrop(1))) \/ update(0, None)

\* C18: no step of arm() or disarm() changes a cached field; self.armed
\* changes only in a refresh that returns, and a refresh that returns leaves
\* it equal to the link's armed flag.
C18_ArmedCachedOnlyByRefresh ==
    [][/\ ArmDisarmStep => self' = self
       /\ self'.armed # self.armed => RefreshReturned
       /\ RefreshReturned => self'.armed = linkArmed]_vars

\* C18 witness: arm() has returned with the vehicle armed and the cached
\* flag still says disarmed.
C18_Witness ==
    /\ result = Ok("arm")
    /\ linkArmed
    /\ ~self.armed

----------------------------------------------------------------------------
(* Parameters: claims C4, C5 (SpecParams) *)

\* the body of the call standing at the gate runs
ParamService ==
    \/ \E key \in ParamKeys : get_param(key)
    \/ get_params
    \/ \E key \in ParamKeys, value \in ParamValues, linkOk \in BOOLEAN :
          set_param(key, value, linkOk)
    \/ \E kw \in Kwargs, failAt \in 0..MaxKwargs : set_params(kw, failAt)
    \/ \E fileOk \in BOOLEAN : save_params(fileOk)
    \/ load_params

NextParams ==
    \/ connect(TRUE, 0, Some(RespDrop(1)))
    \/ LinkParametersLoaded
    \/ \E c \in ParamCalls(~wait_for_param_load) : param_call(c)
    \/ ParamService

SpecParams == Init /\ [][NextParams]_vars

\* the mapping holds a value float() rejects
HasInvalidValue(kw) == \E i \in DOMAIN kw : float(kw[i][2]) = None

\* C4: a set_params call given any value that does not parse as a float
\* writes no parameter to the link.
C4_SetManyValidatesBeforeApplying ==
    [][\A kw \in Kwargs, failAt \in 0..MaxKwargs :
          (set_params(kw, failAt) /\ HasInvalidValue(kw))
             => (parameters' = parameters
                 /\ "parameters.set" \notin Range(trace'))]_vars

C16_SetManyRaisesInvalidRequest ==
    [][\A kw \in Kwargs :
          (set_params(kw, 0) /\ HasInvalidValue(kw))
             => result'.err = "InvalidRequestError"]_vars

\* the blocked thread runs once the gate lets it through; telemetry and
\* armability, which no parameter call reads, start at one value
SpecParamsGate == InitOneLink /\ [][NextParams]_vars /\ WF_vars(ParamService)

\* endpoints of the link's parameter set
ParamEndpoints ==
    {"parameters.get", "parameters.items", "parameters.set",
     "parameters.assign"}

\* C14: no parameter call touches the link's parameter set, and none
\* returns, before the link's parameter set has loaded; a call standing at
\* the gate when the set has loaded eventually returns.
C14_ParameterReadinessGate ==
    /\ [](Range(trace) \cap ParamEndpoints # {} => paramsReady)
    /\ [][(pcall.at = "gate" /\ pcall'.at = "idle") => paramsReady]_vars
    /\ (pcall.at = "gate" /\ paramsReady) ~> (pcall.at = "idle")

\* C14 witness: a call that arrived while the gate was closed has returned
\* with its payload.
C14_Witness ==
    /\ pcall.at = "idle"
    /\ pcall.waited
    /\ result = Ok("get_params")
    /\ reply = Some(VehicleParameters)

----------------------------------------------------------------------------
(* Status and flight mode: claims C12, C15, C19 (SpecStatus) *)

FlightModes == {"AUTO", "HOLD"}

NextStatus ==
    \/ connect(TRUE, 0, Some(RespDrop(1)))
    \/ \E fault \in {0, 164} : update(fault, None)
    \/ quick
    \/ stats
    \/ get_flight_mode
    \/ \E flightmode \in FlightModes, linkOk \in BOOLEAN :
          set_flight_mode(flightmode, linkOk)
    \/ LinkTelemetry
    \/ LinkArmability

SpecStatus == Init /\ [][NextStatus]_vars

\* C12: quick() and stats() touch no endpoint of the link.
C12_StatusReadsTouchNoLink ==
    result.op \in {"quick", "stats"} => trace = <<>>

\* the error classes of utils.errors
TypedErrors == {"GeneralError", "InvalidRequestError", "InvalidStateError"}

\* C15: every call returns its payload or raises one of the classes of
\* utils.errors.
C15_OnlyTypedErrorsEscape ==
    result.err \in TypedErrors \cup {"none", "running"}

\* C19: set_flight_mode leaves self.mode equal to the requested mode when it
\* returns and as it was when it raises.
C19_ModeCachedOnlyOnSuccess ==
    [][\A flightmode \in FlightModes, linkOk \in BOOLEAN :
          set_flight_mode(flightmode, linkOk)
             => IF result'.err = "none"
                THEN self'.mode = VehicleMode(flightmode)
                ELSE self'.mode = self.mode]_vars

----------------------------------------------------------------------------
(* Mission writes: claims C13, C17 (SpecMission) *)

NextMission ==
    \/ connect(TRUE, 0, Some(RespDrop(1)))
    \/ \E linkOk \in BOOLEAN : get_commands(linkOk)
    \/ \E c \in Coordinates, failAt \in 0..3 :
          write_command(c[1], c[2], c[3], failAt)
    \/ \E failAt \in 0..2 : clear_commands(failAt)
    \/ stats

SpecMission == Init /\ [][NextMission]_vars

\* s is a prefix of t
IsPrefix(s, t) == Len(s) <= Len(t) /\ \A i \in DOMAIN s : s[i] = t[i]

\* C13: a write_command that returns leaves the vehicle holding exactly the
\* one waypoint, in the relative-altitude frame, at the given position; the
\* link calls go out in the order clear, add, upload; a call in which one of
\* them raises, or made with no vehicle, raises.
C13_WriteReplacesMission ==
    [][\A c \in Coordinates, failAt \in 0..3 :
          write_command(c[1], c[2], c[3], failAt)
             => /\ IsPrefix(trace', <<"commands.clear", "commands.add",
                                      "commands.upload">>)
                /\ result'.err = "none"
                      => /\ mission' = <<Waypoint(c[1], c[2], c[3])>>
                         /\ Len(trace') = 3
                /\ (failAt # 0 \/ vehicle = "None")
                      => result' = Raised("write_command", "GeneralError")
          ]_vars

\* C13 witness: a write_command returned after the link's list had been
\* filled with another mission, and the vehicle holds the one waypoint.
C13_Witness ==
    /\ result = Ok("write_command")
    /\ mission = <<Waypoint(2, 4, 20)>>
    /\ cmds = mission

\* C17: the stats() that follows a mission write that returned lists the
\* mission the vehicle holds.
C17_StatusListsWrittenMission ==
    [][(/\ result \in {Ok("write_command"), Ok("clear_commands")}
        /\ stats)
          => /\ result' = Ok("stats")
             /\ reply'[1].commands = ToDicts(mission')]_vars

----------------------------------------------------------------------------
(* Concurrent mission writes: claim C20 (SpecMissionConcurrent) *)

NextMissionConcurrent ==
    \/ connect(TRUE, 0, Some(RespDrop(1)))
    \/ \E w \in Writers, c \in Coordinates :
          mission_begin(w, "write_command", c)
    \/ \E w \in Writers : mission_begin(w, "clear_commands", <<>>)
    \/ \E w \in Writers, fail \in BOOLEAN : mission_step(w, fail)

\* telemetry and armability, which no mission write reads, start at one value
SpecMissionConcurrent == InitOneLink /\ [][NextMissionConcurrent]_vars

\* the missions a single call can leave on the vehicle
CompleteMissions ==
    {StoredMission, <<>>}
    \cup {<<Waypoint(c[1], c[2], c[3])>> : c \in Coordinates}

\* C20: with two threads writing missions, the vehicle always holds the
\* whole result of one call.
C20_MissionWritesExclusive == mission \in CompleteMissions

----------------------------------------------------------------------------
(* A status read during a refresh: claim C3 (SpecConcurrent).  The refresh *)
(* thread runs update() a statement at a time and quick() runs between its *)
(* statements.                                                             *)

NextConcurrent ==
    \/ \E resp \in {None, Some(RespDrop(1))} : connect(TRUE, 0, resp)
    \/ update_begin
    \/ \E fault \in {0, upc} :
          \E resp \in (IF upc = 155 THEN {None} \cup {Some(r) : r \in Responses}
                       ELSE {None}) :
             update_step(fault, resp)
    \/ quick
    \/ LinkTelemetry

SpecConcurrent == Init /\ [][NextConcurrent]_vars

\* C3: what quick() returned while an update() was running is the snapshot
\* from before that update() or the one after it, never a mix.
C3_NoTornSnapshot ==
    (upc = 0 /\ result.op = "update" /\ qseen # None)
        => qseen[1] \in {QuickResult(upre), QuickResult(self)}


----------------------------------------------------------------------------
(* The whole handler.  The claims are checked under the specifications of  *)
(* its parts above (SpecTelemetry, SpecArming, SpecParams, SpecStatus,     *)
(* SpecMission, SpecMissionConcurrent, SpecConcurrent),                    *)
(* which leave the other parts' variables at their initial values.         *)

Next ==
    \/ NextTelemetry
    \/ NextArming
    \/ NextParams
    \/ NextConcurrent
    \/ NextStatus
    \/ NextMission
    \/ NextMissionConcurrent

Spec == Init /\ [][Next]_vars

=============================================================================
